---- MODULE Spec2Model ----
(***************************************************************************)
(* Particle swarm optimizer for sensor placement (src/algoritmo_pso.py)    *)
(* and the objective it maximises (src/funciones_objetivo.py).             *)
(*                                                                         *)
(* Numbers.  Coordinates, radii and velocities are integers in units of    *)
(* 0.001 degree, so the configured constants are exact: radio_cobertura    *)
(* 0.012 = 12, velocidad_maxima 0.005 = 5, and so on.  Floating point      *)
(* results are rounded to that grid.  Sub-scores are fixed point numbers   *)
(* in 0..Escala, the total score is in 0..100*Escala (weights are in       *)
(* hundredths).  Humidity is in percent, salinity in tenths.               *)
(*                                                                         *)
(* Randomness.  The code draws every random number from numpy's global     *)
(* generator (np.random.uniform, np.random.random).  The variable rng is   *)
(* the state of that generator; a draw advances it.  A 16 bit linear       *)
(* congruential generator stands in for the Mersenne Twister: what matters *)
(* is that a draw is a function of the generator state and nothing else.   *)
(* The state the generator is in when the optimizer is constructed is not  *)
(* an argument of the optimizer; Init takes it from a set of seeds.        *)
(***************************************************************************)
EXTENDS Integers, Sequences, FiniteSets

(* ---------------------------- bounds --------------------------------- *)

MaxSensores == 2

MaxParticulas == 2

MaxIter == 3

NSemillas == 96

(* ----------------------- program constants --------------------------- *)

RadioCobertura == 12

RadioInfluencia == 18

DistanciaIdeal == 25

RadioCritico == 10

PesoCobertura == 35

PesoBalance == 25

PesoCriticas == 25

PesoDistribucion == 15

Inercia == 7

Cognitivo == 15

Social == 15

VelMax == 5

VelInicial == 1

SalinidadCritica == 25

HumedadSeca == 15

HumedadHumeda == 40

(* fixed point scale of a sub-score: divisible by every denominator the   *)
(* datasets below produce, so the divisions of the objective are exact    *)
Escala == 128 * 27 * 625

(* resolution of one random draw: u / Resolucion is in [0, 1) *)
Resolucion == 2 ^ 8

Cultivos == <<"Maiz", "Tomate", "Chile">>

(* ------------------------------ data --------------------------------- *)

Punto(lat, lon, cultivo, humedad, salinidad) ==
    [Latitud |-> lat, Longitud |-> lon, Cultivo |-> cultivo,
     Humedad |-> humedad, Salinidad |-> salinidad]

(* four points in a square, all three crops, one critical point *)
DatosCuadro ==
    << Punto(0, 0, "Maiz", 30, 10), Punto(0, 20, "Tomate", 30, 10),
       Punto(20, 0, "Chile", 45, 10), Punto(20, 20, "Maiz", 30, 10) >>

(* five points in two far apart groups, negative longitudes, no critical *)
(* point: a sensor between the groups is out of reach of every point      *)
DatosFranja ==
    << Punto(0, -90, "Maiz", 20, 10), Punto(8, -84, "Tomate", 25, 20),
       Punto(70, -6, "Chile", 35, 25), Punto(64, 0, "Maiz", 40, 5),
       Punto(4, -80, "Tomate", 15, 15) >>

(* zero-span domain: every point has the same latitude *)
DatosLinea ==
    << Punto(5, 0, "Maiz", 30, 30), Punto(5, 12, "Tomate", 10, 10),
       Punto(5, 24, "Chile", 30, 10) >>

(* no Chile point *)
DatosSinChile ==
    << Punto(0, 0, "Maiz", 30, 10), Punto(10, 10, "Tomate", 30, 10) >>

DatosVacio == << >>

(* three groups far from each other, each with one point of every crop:  *)
(* every crop is a third of the dataset                                   *)
DatosTercios ==
    << Punto(0, 0, "Maiz", 30, 10), Punto(0, 5, "Tomate", 30, 10),
       Punto(5, 0, "Chile", 30, 10), Punto(100, 100, "Maiz", 30, 10),
       Punto(100, 105, "Tomate", 30, 10), Punto(105, 100, "Chile", 30, 10),
       Punto(200, 0, "Maiz", 30, 10), Punto(200, 5, "Tomate", 30, 10),
       Punto(205, 0, "Chile", 50, 10) >>

Datasets == {DatosCuadro, DatosFranja, DatosLinea, DatosSinChile, DatosVacio}

(* --------------------------- arithmetic ------------------------------ *)

(* The element of a one element set.  Valor({e(x) : x \in {v}}) is e(v)  *)
(* with v evaluated once, before e: the operators below use it where a  *)
(* value computed at some cost is used several times.                   *)
Valor(S) == CHOOSE x \in S : TRUE

Abs(x) == IF x < 0 THEN -x ELSE x

Min2(a, b) == IF a <= b THEN a ELSE b

Max2(a, b) == IF a >= b THEN a ELSE b

(* num/den rounded to the nearest integer, den > 0 *)
Redondear(num, den) == (2 * num + den) \div (2 * den)

(* np.clip *)
Clip(x, lo, hi) == IF x < lo THEN lo ELSE IF x > hi THEN hi ELSE x

(* the largest r in lo..hi with r * r <= n, by bisection *)
RECURSIVE RaizEntre(_, _, _)
RaizEntre(n, lo, hi) ==
    IF lo >= hi THEN lo
    ELSE Valor({IF t[3] * t[3] <= n THEN RaizEntre(n, t[3], t[2])
                ELSE RaizEntre(n, t[1], t[3] - 1) :
                    t \in {<<lo, hi, (lo + hi + 1) \div 2>>}})

(* floor of the square root *)
Raiz(n) == Valor({RaizEntre(m, 0, 46340) : m \in {n}})

RECURSIVE Suma(_, _)
Suma(f, k) == IF k = 0 THEN 0 ELSE f[k] + Suma(f, k - 1)

(* num/den as a fixed point number *)
Frac(num, den) == num * (Escala \div den)

(* ------------------------ random generator --------------------------- *)

Siguiente(s) == (s * 25173 + 13849) % 65536

RECURSIVE Avanzar(_, _)
Avanzar(s, k) == IF k <= 0 THEN s ELSE Avanzar(Siguiente(s), k - 1)

(* the k-th draw from generator state s, in 0..Resolucion-1 *)
Sorteo(s, k) == Avanzar(s, k) \div (65536 \div Resolucion)

(* np.random.uniform(lo, hi) at the k-th draw *)
Uniforme(s, k, lo, hi) == Redondear(lo * Resolucion + (hi - lo) * Sorteo(s, k), Resolucion)

(* ------------------------ objective function ------------------------- *)

(* a particle [lat1, lon1, ..., latN, lonN] as a list of [lat, lon] *)
FormatearSensores(particula) ==
    [k \in 1..(Len(particula) \div 2) |-> <<particula[2 * k - 1], particula[2 * k]>>]

Coords(punto) == <<punto.Latitud, punto.Longitud>>

(* square of calcular_distancia *)
Distancia2(punto1, punto2) ==
    (punto1[1] - punto2[1]) * (punto1[1] - punto2[1])
    + (punto1[2] - punto2[2]) * (punto1[2] - punto2[2])

(* calcular_distancia in hundredths of a unit, rounded down *)
DistanciaCent(punto1, punto2) == Raiz(10000 * Distancia2(punto1, punto2))

(* the sensor nearest to a point; the list of sensors is not empty *)
SensorCercano(coords, sensores) ==
    CHOOSE k \in 1..Len(sensores) :
        \A j \in 1..Len(sensores) :
            Distancia2(coords, sensores[k]) <= Distancia2(coords, sensores[j])

(* any(calcular_distancia(punto, sensor) <= radio for sensor in sensores) *)
Cubierto(coords, sensores, radio) ==
    \E k \in 1..Len(sensores) : Distancia2(coords, sensores[k]) <= radio * radio

(* the credit beyond the radius falls over one radius instead of two *)
CreditoCoberturaDosRadios(coords, sensores) ==
    Valor({IF Distancia2(coords, cerca) <= RadioCobertura * RadioCobertura
           THEN 200 * RadioCobertura
           ELSE Max2(0, 200 * RadioCobertura
                        - 2 * (DistanciaCent(coords, cerca) - 100 * RadioCobertura)) :
               cerca \in {sensores[SensorCercano(coords, sensores)]}})

(* the credit beyond the radius without its floor at 0 *)
CreditoCoberturaSinPiso(coords, sensores) ==
    Valor({IF Distancia2(coords, cerca) <= RadioCobertura * RadioCobertura
           THEN 200 * RadioCobertura
           ELSE 200 * RadioCobertura
                - (DistanciaCent(coords, cerca) - 100 * RadioCobertura) :
               cerca \in {sensores[SensorCercano(coords, sensores)]}})

(* credit of one point at distance dist_minima, over 200 * RadioCobertura *)
CreditoCobertura(coords, sensores) ==
    Valor({IF Distancia2(coords, cerca) <= RadioCobertura * RadioCobertura
           THEN 200 * RadioCobertura
           ELSE Max2(0, 200 * RadioCobertura
                        - (DistanciaCent(coords, cerca) - 100 * RadioCobertura)) :
               cerca \in {sensores[SensorCercano(coords, sensores)]}})

calcular_cobertura_variabilidad(ubicaciones_sensores, datos) ==
    LET credito == [p \in 1..Len(datos) |->
                       CreditoCobertura(Coords(datos[p]), ubicaciones_sensores)]
    IN Frac(Suma(credito, Len(datos)), 200 * RadioCobertura * Len(datos))

(* datos['Cultivo'].value_counts()[cultivo] *)
ConteoTotal(datos, cultivo) ==
    Cardinality({p \in 1..Len(datos) : datos[p].Cultivo = cultivo})

ConteoCubierto(ubicaciones_sensores, datos, cultivo) ==
    Cardinality({p \in 1..Len(datos) :
        /\ datos[p].Cultivo = cultivo
        /\ Cubierto(Coords(datos[p]), ubicaciones_sensores, RadioInfluencia)})

(* the score of a crop is the fraction of its points that are covered *)
PuntajeCultivoCobertura(ubicaciones_sensores_, datos_, cultivo) ==
    Frac(ConteoCubierto(ubicaciones_sensores_, datos_, cultivo),
         ConteoTotal(datos_, cultivo))

(* min(1 - |proporcion_ideal - cobertura_real|, 1.0) of one crop *)
PuntajeCultivo(ubicaciones_sensores, datos, cultivo) ==
    LET total == ConteoTotal(datos, cultivo)
        cubiertos == ConteoCubierto(ubicaciones_sensores, datos, cultivo)
        diferencia == Frac(Abs(total * total - cubiertos * Len(datos)),
                           Len(datos) * total)
    IN Min2(Escala - diferencia, Escala)

balance_entre_cultivos(ubicaciones_sensores, datos) ==
    LET puntaje == [c \in 1..Len(Cultivos) |->
                       PuntajeCultivo(ubicaciones_sensores, datos, Cultivos[c])]
    IN Suma(puntaje, Len(Cultivos)) \div Len(Cultivos)

(* the thresholds themselves count as critical *)
EsCriticoConBorde(punto) ==
    \/ punto.Salinidad >= SalinidadCritica
    \/ punto.Humedad <= HumedadSeca
    \/ punto.Humedad >= HumedadHumeda

EsCritico(punto) ==
    \/ punto.Salinidad > SalinidadCritica
    \/ punto.Humedad < HumedadSeca
    \/ punto.Humedad > HumedadHumeda

cubrir_zonas_problematicas(ubicaciones_sensores, datos) ==
    LET zonas_criticas == {p \in 1..Len(datos) : EsCritico(datos[p])}
        puntos_cubiertos ==
            Cardinality({p \in zonas_criticas :
                Cubierto(Coords(datos[p]), ubicaciones_sensores, RadioCritico)})
    IN IF zonas_criticas = {} THEN Escala
       ELSE Frac(puntos_cubiertos, Cardinality(zonas_criticas))

(* no band of full credit around the ideal distance *)
CreditoDistanciaSinBanda(sensor1, sensor2) ==
    Max2(0, 100 * DistanciaIdeal
            - Abs(DistanciaCent(sensor1, sensor2) - 100 * DistanciaIdeal))

(* credit of one pair of sensors, over 100 * DistanciaIdeal *)
CreditoDistancia(sensor1, sensor2) ==
    LET d2 == Distancia2(sensor1, sensor2)
    IN IF /\ 100 * d2 >= (7 * DistanciaIdeal) * (7 * DistanciaIdeal)
          /\ 100 * d2 <= (13 * DistanciaIdeal) * (13 * DistanciaIdeal)
       THEN 100 * DistanciaIdeal
       ELSE Max2(0, 100 * DistanciaIdeal
                    - Abs(DistanciaCent(sensor1, sensor2) - 100 * DistanciaIdeal))

RECURSIVE SumaPares(_, _, _)
SumaPares(sensores, i, j) ==
    IF i >= Len(sensores) THEN 0
    ELSE IF j > Len(sensores) THEN SumaPares(sensores, i + 1, i + 2)
    ELSE CreditoDistancia(sensores[i], sensores[j]) + SumaPares(sensores, i, j + 1)

optimizar_distancias(ubicaciones_sensores) ==
    LET n == Len(ubicaciones_sensores)
    IN IF n <= 1 THEN Escala
       ELSE Frac(SumaPares(ubicaciones_sensores, 1, 2),
                 100 * DistanciaIdeal * ((n * (n - 1)) \div 2))

(* the exception funcion_objetivo raises, "none" when it returns *)
ExcepcionObjetivo(ubicaciones_sensores, datos) ==
    IF Len(datos) = 0 THEN "ZeroDivisionError"
    ELSE IF Len(ubicaciones_sensores) = 0 THEN "ValueError"
    ELSE IF \E c \in 1..Len(Cultivos) : ConteoTotal(datos, Cultivos[c]) = 0
         THEN "KeyError"
    ELSE "none"

(* the total score, in 0..100*Escala; defined when no exception is raised *)
funcion_objetivo(ubicaciones_sensores, datos) ==
    PesoCobertura * calcular_cobertura_variabilidad(ubicaciones_sensores, datos)
    + PesoBalance * balance_entre_cultivos(ubicaciones_sensores, datos)
    + PesoCriticas * cubrir_zonas_problematicas(ubicaciones_sensores, datos)
    + PesoDistribucion * optimizar_distancias(ubicaciones_sensores)

(* ------------------------------ state -------------------------------- *)

VARIABLES
    pc,                         \* "uninit", "error", "init", "mejores", "mover", "registrar", "done"
    excepcion,                  \* the exception __init__ raised, "none" otherwise
    rng,                        \* state of numpy's global generator
    datos, n_sensores, n_particulas, max_iter,
    lat_min, lat_max, lon_min, lon_max,
    particulas, velocidades,
    mejores_locales, mejores_puntajes_locales,
    comparte,                   \* comparte[i]: mejores_locales[i] is the array object particulas[i]
    mejor_global, mejor_puntaje_global,
    historial_puntajes,
    iteracion,                  \* iterations of the loop of optimizar completed
    resultado,                  \* what optimizar returned, << >> before it returns
    corrida_previa,             \* result and history of an earlier run on the same arguments, << >> if none
    evaluadas,                  \* every <<position, score>> _evaluar_particula has returned in this run
    ubicaciones_sensores,       \* argument of a direct call of a function of funciones_objetivo
    llamada,                    \* the function called directly, "ninguna" before the call
    retorno                     \* [excepcion, valor]: the exception that call raised or "none", and the value returned

vars == <<pc, excepcion, rng, datos, n_sensores, n_particulas, max_iter,
          lat_min, lat_max, lon_min, lon_max, particulas, velocidades,
          mejores_locales, mejores_puntajes_locales, comparte,
          mejor_global, mejor_puntaje_global, historial_puntajes,
          iteracion, resultado, corrida_previa, evaluadas,
          ubicaciones_sensores, llamada, retorno>>

(* the variables of a direct call of the objective *)
objetivo == <<ubicaciones_sensores, llamada, retorno>>

Semillas == 0..(NSemillas - 1)

(* the outcome of a call: it raised excepcion_, or returned valor *)
Resultado(excepcion_, valor) ==
    [excepcion |-> excepcion_, valor |-> IF excepcion_ = "none" THEN valor ELSE 0]

SinRetorno == Resultado("none", 0)

Init ==
    /\ pc = "uninit"
    /\ excepcion = "none"
    /\ rng \in Semillas
    /\ datos = << >>
    /\ n_sensores = 0
    /\ n_particulas = 0
    /\ max_iter = 0
    /\ lat_min = 0 /\ lat_max = 0 /\ lon_min = 0 /\ lon_max = 0
    /\ particulas = << >>
    /\ velocidades = << >>
    /\ mejores_locales = << >>
    /\ mejores_puntajes_locales = << >>
    /\ comparte = << >>
    /\ mejor_global = << >>
    /\ mejor_puntaje_global = 0
    /\ historial_puntajes = << >>
    /\ iteracion = 0
    /\ resultado = << >>
    /\ corrida_previa = << >>
    /\ evaluadas = {}
    /\ ubicaciones_sensores = << >>
    /\ llamada = "ninguna"
    /\ retorno = SinRetorno

(* --------------------------- construction ---------------------------- *)

(* datos[columna].min() and .max(); NaN (here 0) on an empty dataset *)
Minimo(d, columna) ==
    IF Len(d) = 0 THEN 0
    ELSE CHOOSE m \in {d[p][columna] : p \in 1..Len(d)} :
             \A p \in 1..Len(d) : m <= d[p][columna]

Maximo(d, columna) ==
    IF Len(d) = 0 THEN 0
    ELSE CHOOSE m \in {d[p][columna] : p \in 1..Len(d)} :
             \A p \in 1..Len(d) : m >= d[p][columna]

(* particle i (from 1) of _inicializar_particulas: draws lat, lon per sensor *)
ParticulaInicial(s, d, ns, i) ==
    [j \in 1..(2 * ns) |->
        IF j % 2 = 1
        THEN Uniforme(s, (i - 1) * 2 * ns + j, Minimo(d, "Latitud"), Maximo(d, "Latitud"))
        ELSE Uniforme(s, (i - 1) * 2 * ns + j, Minimo(d, "Longitud"), Maximo(d, "Longitud"))]

_inicializar_particulas(s, d, ns, np) ==
    [i \in 1..np |-> ParticulaInicial(s, d, ns, i)]

(* np.random.uniform(-0.001, 0.001, n_sensores * 2) per particle, drawn    *)
(* after every position                                                   *)
_inicializar_velocidades(s, ns, np) ==
    [i \in 1..np |->
        [j \in 1..(2 * ns) |->
            Uniforme(s, 2 * ns * np + (i - 1) * 2 * ns + j, -VelInicial, VelInicial)]]

_evaluar_particula(particula, d) ==
    Valor({funcion_objetivo(sensores, d) : sensores \in {FormatearSensores(particula)}})

(* the last index of the maximum instead of the first *)
ArgMaxUltimo(puntajes) ==
    CHOOSE k \in 1..Len(puntajes) :
        /\ \A j \in 1..Len(puntajes) : puntajes[j] <= puntajes[k]
        /\ \A j \in (k + 1)..Len(puntajes) : puntajes[j] < puntajes[k]

(* np.argmax: the first index of the maximum *)
ArgMax(puntajes) ==
    CHOOSE k \in 1..Len(puntajes) :
        /\ \A j \in 1..Len(puntajes) : puntajes[j] <= puntajes[k]
        /\ \A j \in 1..(k - 1) : puntajes[j] < puntajes[k]

(* the exception __init__ raises on these arguments, "none" if it returns: *)
(* uniform() refuses NaN bounds, funcion_objetivo raises as above, and     *)
(* np.argmax refuses an empty list                                         *)
ExcepcionConstruir(d, ns, np) ==
    IF np >= 1 /\ ns >= 1 /\ Len(d) = 0 THEN "OverflowError"
    ELSE IF np >= 1
         THEN ExcepcionObjetivo([k \in 1..ns |-> <<0, 0>>], d)
         ELSE "ValueError"

__init__(d, ns, np, mi) ==
    /\ datos' = d
    /\ n_sensores' = ns
    /\ n_particulas' = np
    /\ max_iter' = mi
    /\ lat_min' = Minimo(d, "Latitud")
    /\ lat_max' = Maximo(d, "Latitud")
    /\ lon_min' = Minimo(d, "Longitud")
    /\ lon_max' = Maximo(d, "Longitud")
    /\ excepcion' = ExcepcionConstruir(d, ns, np)
    /\ IF ExcepcionConstruir(d, ns, np) # "none"
       THEN /\ pc' = "error"
            /\ rng' = IF ExcepcionConstruir(d, ns, np) = "OverflowError"
                      THEN rng ELSE Avanzar(rng, 4 * ns * np)
            /\ evaluadas' = {}
            /\ UNCHANGED <<particulas, velocidades, mejores_locales,
                           mejores_puntajes_locales, comparte, mejor_global,
                           mejor_puntaje_global>>
       ELSE LET ps == _inicializar_particulas(rng, d, ns, np)
                puntajes == [i \in 1..np |-> _evaluar_particula(ps[i], d)]
                mejor_idx == ArgMax(puntajes)
            IN /\ pc' = "init"
               /\ rng' = Avanzar(rng, 4 * ns * np)
               /\ particulas' = ps
               /\ velocidades' = _inicializar_velocidades(rng, ns, np)
               /\ mejores_locales' = ps
               /\ comparte' = [i \in 1..np |-> TRUE]
               /\ mejores_puntajes_locales' = puntajes
               /\ mejor_global' = ps[mejor_idx]
               /\ mejor_puntaje_global' = puntajes[mejor_idx]
               /\ evaluadas' = {<<ps[i], puntajes[i]>> : i \in 1..np}
    /\ historial_puntajes' = << >>
    /\ iteracion' = 0
    /\ resultado' = << >>
    /\ UNCHANGED objetivo

(* PSOOptimizer(datos, n_sensores, n_particulas, max_iter) *)
Construir(d, ns, np, mi) ==
    /\ pc = "uninit"
    /\ __init__(d, ns, np, mi)
    /\ UNCHANGED corrida_previa

(* a caller keeps the outcome of a finished run and constructs a second  *)
(* optimizer on the same arguments; the generator is where the first run *)
(* left it                                                               *)
SegundaCorrida ==
    /\ pc = "done"
    /\ corrida_previa = << >>
    /\ corrida_previa' = <<resultado, historial_puntajes>>
    /\ __init__(datos, n_sensores, n_particulas, max_iter)

(* ---------------------------- optimizar ------------------------------ *)

(* a convergence test added to the loop: stop once the swarm stands still *)
QuedanIteracionesConParada(hechas) ==
    /\ hechas < max_iter
    /\ \/ hechas = 0
       \/ \E i \in 1..n_particulas : \E j \in 1..(2 * n_sensores) :
              velocidades[i][j] # 0

(* range(max_iter) has another element *)
QuedanIteraciones(hechas) == hechas < max_iter

(* the particles are compared once more after the last move, and a      *)
(* particle that ended above the stored global best is returned         *)
RetornoTrasUltimoMovimiento(posicion, puntaje) ==
    LET finales == [i \in 1..n_particulas |-> _evaluar_particula(particulas[i], datos)]
        mejor_idx == ArgMax(finales)
    IN IF finales[mejor_idx] > puntaje
       THEN <<FormatearSensores(particulas[mejor_idx]), finales[mejor_idx]>>
       ELSE <<FormatearSensores(posicion), puntaje>>

Retorno(posicion, puntaje) == <<FormatearSensores(posicion), puntaje>>

(* optimizar is called: the loop is entered, or left at once *)
Optimizar ==
    /\ pc = "init"
    /\ IF QuedanIteraciones(0)
       THEN pc' = "mejores" /\ UNCHANGED resultado
       ELSE pc' = "done" /\ resultado' = Retorno(mejor_global, mejor_puntaje_global)
    /\ UNCHANGED <<excepcion, rng, datos, n_sensores, n_particulas, max_iter,
                   lat_min, lat_max, lon_min, lon_max, particulas, velocidades,
                   mejores_locales, mejores_puntajes_locales, comparte,
                   mejor_global, mejor_puntaje_global, historial_puntajes,
                   iteracion, corrida_previa, evaluadas, objetivo>>

(* the comparison turned around *)
MejoraInvertida(puntaje_actual, guardado) == puntaje_actual < guardado

(* a tie replaces too *)
MejoraConEmpate(puntaje_actual, guardado) == puntaje_actual >= guardado

(* puntaje_actual > stored best *)
Mejora(puntaje_actual, guardado) == puntaje_actual > guardado

(* puntaje_actual of every particle, as the loop evaluates them *)
PuntajesActuales == [i \in 1..n_particulas |-> _evaluar_particula(particulas[i], datos)]

(* the global best after particles 1..k of _actualizar_mejores_posiciones *)
RECURSIVE GlobalTras(_, _)
GlobalTras(puntajes, k) ==
    IF k = 0 THEN [puntaje |-> mejor_puntaje_global, posicion |-> mejor_global]
    ELSE LET previo == GlobalTras(puntajes, k - 1)
         IN IF Mejora(puntajes[k], previo.puntaje)
            THEN [puntaje |-> puntajes[k], posicion |-> particulas[k]]
            ELSE previo

_actualizar_mejores_posiciones ==
    /\ pc = "mejores"
    /\ \E puntajes \in {PuntajesActuales} :
       \E global \in {GlobalTras(puntajes, n_particulas)} :
          /\ mejores_puntajes_locales' =
                 [i \in 1..n_particulas |->
                     IF Mejora(puntajes[i], mejores_puntajes_locales[i])
                     THEN puntajes[i]
                     ELSE mejores_puntajes_locales[i]]
          /\ mejores_locales' =
                 [i \in 1..n_particulas |->
                     IF Mejora(puntajes[i], mejores_puntajes_locales[i])
                     THEN particulas[i]
                     ELSE mejores_locales[i]]
          /\ comparte' =
                 [i \in 1..n_particulas |->
                     IF Mejora(puntajes[i], mejores_puntajes_locales[i])
                     THEN FALSE
                     ELSE comparte[i]]
          /\ mejor_puntaje_global' = global.puntaje
          /\ mejor_global' = global.posicion
          /\ evaluadas' = evaluadas \cup
                 {<<particulas[i], puntajes[i]>> : i \in 1..n_particulas}
    /\ pc' = "mover"
    /\ UNCHANGED <<excepcion, rng, datos, n_sensores, n_particulas, max_iter,
                   lat_min, lat_max, lon_min, lon_max, particulas, velocidades,
                   historial_puntajes, iteracion, resultado, corrida_previa,
                   objetivo>>

(* the velocity limit left out *)
LimitarVelocidadSinTope(v) == v

(* np.clip(velocidad, -vel_max, vel_max) *)
LimitarVelocidad(v) == Clip(v, -VelMax, VelMax)

(* one component of inercia + cognitivo + social, r1 = u1/Resolucion *)
VelocidadCruda(v, x, mejor_local, mejor, u1, u2) ==
    Redondear(Inercia * Resolucion * v
              + Cognitivo * u1 * (mejor_local - x)
              + Social * u2 * (mejor - x),
              10 * Resolucion)

(* r1, r2 drawn again for every component instead of once per particle *)
NuevaVelocidadPorComponente(i) ==
    [j \in 1..(2 * n_sensores) |->
        LimitarVelocidad(VelocidadCruda(velocidades[i][j], particulas[i][j],
                                        mejores_locales[i][j], mejor_global[j],
                                        Sorteo(rng, 2 * j - 1), Sorteo(rng, 2 * j)))]

(* the velocity of particle i after the update; r1, r2 are draws 2i-1, 2i *)
NuevaVelocidad(i) ==
    [j \in 1..(2 * n_sensores) |->
        LimitarVelocidad(VelocidadCruda(velocidades[i][j], particulas[i][j],
                                        mejores_locales[i][j], mejor_global[j],
                                        Sorteo(rng, 2 * i - 1), Sorteo(rng, 2 * i)))]

(* a particle bounces off the border instead of stopping at it *)
RestringirReflejo(x, j) ==
    LET lo == IF j % 2 = 1 THEN lat_min ELSE lon_min
        hi == IF j % 2 = 1 THEN lat_max ELSE lon_max
    IN IF x > hi THEN Max2(lo, hi - (x - hi))
       ELSE IF x < lo THEN Min2(hi, lo + (lo - x))
       ELSE x

(* the geographic limits left out *)
RestringirSinTope(x, j) == x

(* _aplicar_restricciones on one coordinate: latitudes at even Python       *)
(* indices (odd here), longitudes at the others                            *)
Restringir(x, j) ==
    IF j % 2 = 1 THEN Clip(x, lat_min, lat_max) ELSE Clip(x, lon_min, lon_max)

NuevaPosicion(i) ==
    [j \in 1..(2 * n_sensores) |-> Restringir(particulas[i][j] + NuevaVelocidad(i)[j], j)]

(* particulas[i] += velocidades[i] and the clipping work in place on the   *)
(* array, so a mejores_locales[i] that is the same object changes with it  *)
_actualizar_velocidades_posiciones ==
    /\ pc = "mover"
    /\ velocidades' = [i \in 1..n_particulas |-> NuevaVelocidad(i)]
    /\ particulas' = [i \in 1..n_particulas |-> NuevaPosicion(i)]
    /\ mejores_locales' =
           [i \in 1..n_particulas |->
               IF comparte[i] THEN NuevaPosicion(i) ELSE mejores_locales[i]]
    /\ rng' = Avanzar(rng, 2 * n_particulas)
    /\ pc' = "registrar"
    /\ UNCHANGED <<excepcion, datos, n_sensores, n_particulas, max_iter,
                   lat_min, lat_max, lon_min, lon_max, mejores_puntajes_locales,
                   comparte, mejor_global, mejor_puntaje_global,
                   historial_puntajes, iteracion, resultado, corrida_previa,
                   evaluadas, objetivo>>

(* historial_puntajes.append, then the loop goes on or optimizar returns *)
RegistrarProgreso ==
    /\ pc = "registrar"
    /\ historial_puntajes' = Append(historial_puntajes, mejor_puntaje_global)
    /\ iteracion' = iteracion + 1
    /\ IF QuedanIteraciones(iteracion + 1)
       THEN pc' = "mejores" /\ UNCHANGED resultado
       ELSE pc' = "done" /\ resultado' = Retorno(mejor_global, mejor_puntaje_global)
    /\ UNCHANGED <<excepcion, rng, datos, n_sensores, n_particulas, max_iter,
                   lat_min, lat_max, lon_min, lon_max, particulas, velocidades,
                   mejores_locales, mejores_puntajes_locales, comparte,
                   mejor_global, mejor_puntaje_global, corrida_previa,
                   evaluadas, objetivo>>

Next ==
    \/ \E d \in Datasets, ns \in 0..MaxSensores, np \in 0..MaxParticulas,
          mi \in (-1)..MaxIter : Construir(d, ns, np, mi)
    \/ Optimizar
    \/ _actualizar_mejores_posiciones
    \/ _actualizar_velocidades_posiciones
    \/ RegistrarProgreso

Spec == Init /\ [][Next]_vars

(* the code is sequential: once the optimizer is constructed, optimizar  *)
(* is called and every step of its loop is taken                         *)
FairSpec ==
    /\ Spec
    /\ WF_vars(Optimizar)
    /\ WF_vars(_actualizar_mejores_posiciones)
    /\ WF_vars(_actualizar_velocidades_posiciones)
    /\ WF_vars(RegistrarProgreso)

NextDosCorridas == Next \/ SegundaCorrida

SpecDosCorridas == Init /\ [][NextDosCorridas]_vars

(* -------------------- direct calls of the objective ------------------ *)

(* The functions of funciones_objetivo are also called on their own, by  *)
(* the comparison with fixed strategies and by the report. A call takes  *)
(* a list of sensors and a dataset and returns or raises.                *)

DatosObjetivo == Datasets \cup {DatosTercios}

(* places a sensor is put at in a direct call: on a sample point, at the *)
(* coverage radius, twice and three times the radius of one, between     *)
(* points, at the ideal spacing of another place, and far from all       *)
PosicionesSensor ==
    { <<0, 0>>, <<5, 0>>, <<5, 36>>, <<10, 10>>, <<20, 10>>, <<15, 20>>,
      <<35, -45>>, <<70, -6>>, <<4, -84>> }

SensoresPosibles ==
    UNION {[1..n -> PosicionesSensor] : n \in 0..MaxSensores}

InitObjetivo ==
    /\ pc = "uninit"
    /\ excepcion = "none"
    /\ rng = 0
    /\ datos \in DatosObjetivo
    /\ n_sensores = 0
    /\ n_particulas = 0
    /\ max_iter = 0
    /\ lat_min = 0 /\ lat_max = 0 /\ lon_min = 0 /\ lon_max = 0
    /\ particulas = << >>
    /\ velocidades = << >>
    /\ mejores_locales = << >>
    /\ mejores_puntajes_locales = << >>
    /\ comparte = << >>
    /\ mejor_global = << >>
    /\ mejor_puntaje_global = 0
    /\ historial_puntajes = << >>
    /\ iteracion = 0
    /\ resultado = << >>
    /\ corrida_previa = << >>
    /\ evaluadas = {}
    /\ ubicaciones_sensores \in SensoresPosibles
    /\ llamada = "ninguna"
    /\ retorno = SinRetorno

(* puntaje / total_puntos with no point; min() of no distance *)
ExcepcionCobertura(sensores, d) ==
    IF Len(d) = 0 THEN "ZeroDivisionError"
    ELSE IF Len(sensores) = 0 THEN "ValueError"
    ELSE "none"

(* conteo_total[cultivo] of a crop value_counts() has no entry for *)
ExcepcionBalance(sensores, d) ==
    IF \E c \in 1..Len(Cultivos) : ConteoTotal(d, Cultivos[c]) = 0
    THEN "KeyError"
    ELSE "none"

(* what a direct call of the objective leaves alone *)
sin_llamada ==
    <<pc, excepcion, rng, datos, n_sensores, n_particulas, max_iter,
      lat_min, lat_max, lon_min, lon_max, particulas, velocidades,
      mejores_locales, mejores_puntajes_locales, comparte, mejor_global,
      mejor_puntaje_global, historial_puntajes, iteracion, resultado,
      corrida_previa, evaluadas, ubicaciones_sensores>>

LlamarCobertura ==
    /\ llamada = "ninguna"
    /\ llamada' = "calcular_cobertura_variabilidad"
    /\ retorno' = Resultado(ExcepcionCobertura(ubicaciones_sensores, datos),
                            calcular_cobertura_variabilidad(ubicaciones_sensores, datos))
    /\ UNCHANGED sin_llamada

LlamarBalance ==
    /\ llamada = "ninguna"
    /\ llamada' = "balance_entre_cultivos"
    /\ retorno' = Resultado(ExcepcionBalance(ubicaciones_sensores, datos),
                            balance_entre_cultivos(ubicaciones_sensores, datos))
    /\ UNCHANGED sin_llamada

LlamarCriticas ==
    /\ llamada = "ninguna"
    /\ llamada' = "cubrir_zonas_problematicas"
    /\ retorno' = Resultado("none", cubrir_zonas_problematicas(ubicaciones_sensores, datos))
    /\ UNCHANGED sin_llamada

LlamarDistancias ==
    /\ llamada = "ninguna"
    /\ llamada' = "optimizar_distancias"
    /\ retorno' = Resultado("none", optimizar_distancias(ubicaciones_sensores))
    /\ UNCHANGED sin_llamada

LlamarFuncionObjetivo ==
    /\ llamada = "ninguna"
    /\ llamada' = "funcion_objetivo"
    /\ retorno' = Resultado(ExcepcionObjetivo(ubicaciones_sensores, datos),
                            funcion_objetivo(ubicaciones_sensores, datos))
    /\ UNCHANGED sin_llamada

NextObjetivo ==
    \/ LlamarCobertura
    \/ LlamarBalance
    \/ LlamarCriticas
    \/ LlamarDistancias
    \/ LlamarFuncionObjetivo

SpecObjetivo == InitObjetivo /\ [][NextObjetivo]_vars

(* ============================= claims ================================ *)

Construido == pc \in {"init", "mejores", "mover", "registrar", "done"}

LimiteInferior(j) == IF j % 2 = 1 THEN lat_min ELSE lon_min

LimiteSuperior(j) == IF j % 2 = 1 THEN lat_max ELSE lon_max

Indices == 1..n_particulas

Componentes == 1..(2 * n_sensores)

(* every coordinate of every particle is inside the domain *)
EnLimites ==
    Construido =>
        \A i \in Indices : \A j \in Componentes :
            /\ LimiteInferior(j) <= particulas[i][j]
            /\ particulas[i][j] <= LimiteSuperior(j)

(* the move step puts a coordinate at position + velocity, or at the      *)
(* bound that sum passes                                                   *)
MoverRecorta ==
    pc = "mover" =>
        \A i \in Indices : \A j \in Componentes :
            LET suma == particulas[i][j] + velocidades'[i][j]
            IN particulas'[i][j] =
                   IF suma > LimiteSuperior(j) THEN LimiteSuperior(j)
                   ELSE IF suma < LimiteInferior(j) THEN LimiteInferior(j)
                   ELSE suma

(* C1: in every state from construction on, every latitude of every       *)
(* particle is in [lat_min, lat_max] and every longitude in               *)
(* [lon_min, lon_max]; a move whose position + velocity leaves the domain *)
(* ends exactly on the bound it passed, never reflected or wrapped.       *)
C1_PosicionesEnLimites == [](EnLimites) /\ [][MoverRecorta]_vars

(* the move step is about to carry a latitude past lat_max in a domain    *)
(* that has a span                                                         *)
C1_Testigo ==
    /\ pc = "mover"
    /\ lat_min < lat_max
    /\ \E i \in Indices : \E j \in Componentes :
          /\ j % 2 = 1
          /\ particulas[i][j] + NuevaVelocidad(i)[j] > lat_max
          /\ NuevaPosicion(i)[j] = lat_max

(* C2: every component of every velocity is in [-VelMax, VelMax], for the *)
(* initial velocities and after every velocity update.                    *)
C2_VelocidadesAcotadas ==
    Construido =>
        \A i \in Indices : \A j \in Componentes :
            /\ -VelMax <= velocidades[i][j]
            /\ velocidades[i][j] <= VelMax

(* the velocity update is about to compute a component beyond VelMax and *)
(* another beyond -VelMax, and leaves both on the limit                   *)
C2_Testigo ==
    /\ pc = "mover"
    /\ \E i \in Indices : \E j \in Componentes :
          /\ VelocidadCruda(velocidades[i][j], particulas[i][j],
                            mejores_locales[i][j], mejor_global[j],
                            Sorteo(rng, 2 * i - 1), Sorteo(rng, 2 * i)) > VelMax
          /\ NuevaVelocidad(i)[j] = VelMax
    /\ \E i \in Indices : \E j \in Componentes :
          /\ VelocidadCruda(velocidades[i][j], particulas[i][j],
                            mejores_locales[i][j], mejor_global[j],
                            Sorteo(rng, 2 * i - 1), Sorteo(rng, 2 * i)) < -VelMax
          /\ NuevaVelocidad(i)[j] = -VelMax

(* scores never go down in a step *)
PuntajesNoBajan ==
    (Construido /\ pc' # "init") =>
        /\ \A i \in Indices :
               mejores_puntajes_locales'[i] >= mejores_puntajes_locales[i]
        /\ mejor_puntaje_global' >= mejor_puntaje_global

HistorialNoDecrece ==
    \A k \in 1..(Len(historial_puntajes) - 1) :
        historial_puntajes[k + 1] >= historial_puntajes[k]

(* C3: no particle's personal best score and not the global best score    *)
(* ever decreases from one step to the next, and the history of recorded  *)
(* scores is non-decreasing.                                              *)
C3_PuntajesMonotonos == [][PuntajesNoBajan]_vars /\ [](HistorialNoDecrece)

(* a run whose recorded global best went up between two iterations, with  *)
(* a particle whose current score is below its personal best              *)
C3_Testigo ==
    /\ pc = "done"
    /\ Len(historial_puntajes) >= 2
    /\ historial_puntajes[2] > historial_puntajes[1]
    /\ \E i \in Indices :
          _evaluar_particula(particulas[i], datos) < mejores_puntajes_locales[i]

PuntajeActual(i) == _evaluar_particula(particulas[i], datos)

(* the personal best of a particle is seeded with its initial position   *)
(* and afterwards replaced only by the update-bests step, on a strictly  *)
(* greater score, by the position and score just evaluated               *)
MejorLocalSoloPorMejora ==
    /\ pc' = "init" =>
           /\ mejores_locales' = particulas'
           /\ \A i \in 1..n_particulas' :
                  mejores_puntajes_locales'[i] =
                      _evaluar_particula(particulas'[i], datos')
    /\ (Construido /\ pc' # "init") =>
           \A i \in Indices :
               (\/ mejores_locales'[i] # mejores_locales[i]
                \/ mejores_puntajes_locales'[i] # mejores_puntajes_locales[i])
               => /\ pc = "mejores"
                  /\ PuntajeActual(i) > mejores_puntajes_locales[i]
                  /\ mejores_locales'[i] = particulas[i]
                  /\ mejores_puntajes_locales'[i] = PuntajeActual(i)

(* C4: a personal best position is seeded with the particle's initial    *)
(* position and changes only in the update-bests step, on a strictly     *)
(* greater score; the move step leaves every personal best position and  *)
(* score as they were.                                                   *)
C4_MejorLocalIntactoAlMover == [][MejorLocalSoloPorMejora]_vars

(* ties and lower scores replace nothing in the update-bests step *)
EmpateNoReemplaza ==
    pc = "mejores" =>
        /\ \A i \in Indices :
               PuntajeActual(i) <= mejores_puntajes_locales[i] =>
                   /\ mejores_locales'[i] = mejores_locales[i]
                   /\ mejores_puntajes_locales'[i] = mejores_puntajes_locales[i]
        /\ (\A i \in Indices : PuntajeActual(i) <= mejor_puntaje_global) =>
               /\ mejor_global' = mejor_global
               /\ mejor_puntaje_global' = mejor_puntaje_global
        /\ mejor_global' # mejor_global =>
               mejor_puntaje_global' > mejor_puntaje_global

(* C5: in the update-bests step a particle whose score is equal to or    *)
(* lower than its personal best score leaves its personal best as it     *)
(* was, and scores equal to or lower than the global best score leave    *)
(* the global best as it was: ties never replace.                        *)
C5_EmpateNoReemplaza == [][EmpateNoReemplaza]_vars

(* the update-bests step is about to see a particle that ties its own    *)
(* personal best score at another position, a particle that ties the     *)
(* global best score at another position, and a particle below both     *)
C5_Testigo ==
    /\ pc = "mejores"
    /\ \E i \in Indices :
          /\ particulas[i] # mejores_locales[i]
          /\ PuntajeActual(i) = mejores_puntajes_locales[i]
    /\ \E i \in Indices :
          /\ particulas[i] # mejor_global
          /\ PuntajeActual(i) = mejor_puntaje_global
    /\ \E i \in Indices :
          /\ PuntajeActual(i) < mejores_puntajes_locales[i]
          /\ PuntajeActual(i) < mejor_puntaje_global

(* C6: after initialization the global best score is the maximum of the  *)
(* initial particle scores and the global best position is the initial   *)
(* position of the lowest-indexed particle that attains it.              *)
C6_MejorGlobalInicial ==
    pc = "init" =>
        /\ \A i \in Indices : PuntajeActual(i) <= mejor_puntaje_global
        /\ \E k \in Indices :
              /\ PuntajeActual(k) = mejor_puntaje_global
              /\ \A j \in 1..(k - 1) : PuntajeActual(j) < mejor_puntaje_global
              /\ mejor_global = particulas[k]

(* a swarm just initialized in which two particles at different         *)
(* positions tie for the maximum score                                   *)
C6_Testigo ==
    /\ pc = "init"
    /\ \E k \in Indices : \E j \in (k + 1)..n_particulas :
          /\ PuntajeActual(k) = mejor_puntaje_global
          /\ PuntajeActual(j) = mejor_puntaje_global
          /\ particulas[j] # particulas[k]
          /\ mejor_global = particulas[k]

(* C7: for every iteration budget max_iter >= 0, optimizar terminates,   *)
(* and when it returns it has run exactly max_iter iterations and the    *)
(* history holds exactly max_iter entries; there is no early exit.       *)
C7_TerminaTrasMaxIter ==
    /\ [](pc = "done" /\ max_iter >= 0 =>
              /\ iteracion = max_iter
              /\ Len(historial_puntajes) = max_iter)
    /\ [](pc \in {"mejores", "mover", "registrar"} => iteracion < max_iter)
    /\ (Construido ~> pc = "done")

(* optimizar has returned after a full budget although the global best   *)
(* stopped improving and the swarm stood still before the last iteration *)
C7_Testigo ==
    /\ pc = "done"
    /\ max_iter = MaxIter
    /\ iteracion = MaxIter
    /\ historial_puntajes[MaxIter] = historial_puntajes[MaxIter - 1]
    /\ \A i \in Indices : \A j \in Componentes : velocidades[i][j] = 0

(* C8: every (latitude, longitude) pair optimizar returns lies inside    *)
(* the extrema of the dataset.                                           *)
C8_ResultadoEnLimites ==
    pc = "done" =>
        \A k \in 1..Len(resultado[1]) :
            /\ lat_min <= resultado[1][k][1] /\ resultado[1][k][1] <= lat_max
            /\ lon_min <= resultado[1][k][2] /\ resultado[1][k][2] <= lon_max

(* optimizar returned a configuration found during the iterations, with  *)
(* a sensor on the border of the domain                                  *)
C8_Testigo ==
    /\ pc = "done"
    /\ iteracion >= 2
    /\ lat_min < lat_max /\ lon_min < lon_max
    /\ historial_puntajes[iteracion] > historial_puntajes[1]
    /\ \E k \in 1..Len(resultado[1]) :
          \/ resultado[1][k][1] \in {lat_min, lat_max}
          \/ resultado[1][k][2] \in {lon_min, lon_max}

(* the arguments of the constructor are degenerate: an empty dataset, a  *)
(* domain without span, no sensor, no particle or a negative budget      *)
EntradaDegenerada ==
    \/ Len(datos) = 0
    \/ lat_min = lat_max
    \/ lon_min = lon_max
    \/ n_sensores < 1
    \/ n_particulas < 1
    \/ max_iter < 0

(* C9: two runs on the same dataset, sensor count, swarm size and        *)
(* iteration budget (none of them degenerate) return the same            *)
(* configuration, the same score and the same history.                   *)
C9_CorridasIdenticas ==
    (pc = "done" /\ corrida_previa # << >> /\ ~EntradaDegenerada) =>
        <<resultado, historial_puntajes>> = corrida_previa

(* C10: the constructor rejects every degenerate input with an error;    *)
(* none reaches the initialized or iterating state or returns a result.  *)
C10_DegeneradaRechazada ==
    (pc # "uninit" /\ EntradaDegenerada) => pc = "error"

(* r1 and r2 of particle i in the move step about to be taken, over     *)
(* Resolucion: the draws 2i-1 and 2i of the generator                   *)
R1(i) == Sorteo(rng, 2 * i - 1)

R2(i) == Sorteo(rng, 2 * i)

(* w*v + c1*r1*(personal best - position) + c2*r2*(global best -        *)
(* position) for component j of particle i, from the bests as the       *)
(* update-bests step left them, limited to [-VelMax, VelMax]            *)
VelocidadSegunFormula(i, j) ==
    LET cruda == Redondear(Inercia * Resolucion * velocidades[i][j]
                           + Cognitivo * R1(i) * (mejores_locales[i][j] - particulas[i][j])
                           + Social * R2(i) * (mejor_global[j] - particulas[i][j]),
                           10 * Resolucion)
    IN IF cruda > VelMax THEN VelMax
       ELSE IF cruda < -VelMax THEN -VelMax
       ELSE cruda

VelocidadesSegunFormula ==
    \A i \in Indices : \A j \in Componentes :
        velocidades'[i][j] = VelocidadSegunFormula(i, j)

(* the move step gives every particle the velocity of the formula and   *)
(* puts it at its old position plus that velocity (in a domain that has *)
(* a span in both directions)                                           *)
MoverSinRecorte ==
    (pc = "mover" /\ lat_min < lat_max /\ lon_min < lon_max) =>
        /\ VelocidadesSegunFormula
        /\ \A i \in Indices : \A j \in Componentes :
               particulas'[i][j] = particulas[i][j] + velocidades'[i][j]

(* the same, the sum then limited to the domain *)
MoverConRecorte ==
    pc = "mover" =>
        /\ VelocidadesSegunFormula
        /\ \A i \in Indices : \A j \in Componentes :
               LET suma == particulas[i][j] + velocidades'[i][j]
               IN particulas'[i][j] =
                      IF suma > LimiteSuperior(j) THEN LimiteSuperior(j)
                      ELSE IF suma < LimiteInferior(j) THEN LimiteInferior(j)
                      ELSE suma

(* C16 as stated: in the move step every particle i gets                *)
(* v' = clamp(w*v + c1*r1*(personalBest_i - x_i) + c2*r2*(globalBest -  *)
(* x_i)), one (r1, r2) per particle for all its components, bests as    *)
(* fixed by the update-bests step, and its new position is x_i + v'.    *)
C16_MoverSegunFormula == [][MoverSinRecorte]_vars

(* C16 amended: the same velocity, and the new position is x_i + v'     *)
(* with every latitude then limited to [lat_min, lat_max] and every     *)
(* longitude to [lon_min, lon_max].                                     *)
C16_MoverSegunFormulaYRecorte == [][MoverConRecorte]_vars

(* a move step about to be taken by two particles with different        *)
(* (r1, r2), one of them away from its personal best and from the       *)
(* global best, one of them carried out of the domain by its velocity   *)
C16_Testigo ==
    /\ pc = "mover"
    /\ n_particulas = 2
    /\ <<R1(1), R2(1)>> # <<R1(2), R2(2)>>
    /\ \E i \in Indices : \E j \in Componentes :
           /\ R1(i) > 0 /\ R2(i) > 0
           /\ mejores_locales[i][j] # particulas[i][j]
           /\ mejor_global[j] # particulas[i][j]
           /\ mejor_global[j] # mejores_locales[i][j]
    /\ \E i \in Indices : \E j \in Componentes :
           \/ particulas[i][j] + VelocidadSegunFormula(i, j) > LimiteSuperior(j)
           \/ particulas[i][j] + VelocidadSegunFormula(i, j) < LimiteInferior(j)

(* the orders in which the particles can be processed *)
Ordenes ==
    {orden \in [Indices -> Indices] :
        \A i, k \in Indices : orden[i] = orden[k] => i = k}

(* the global best after the first k particles of orden went through    *)
(* the body of the loop of _actualizar_mejores_posiciones               *)
RECURSIVE GlobalEnOrden(_, _, _)
GlobalEnOrden(puntajes, orden, k) ==
    IF k = 0 THEN [puntaje |-> mejor_puntaje_global, posicion |-> mejor_global]
    ELSE LET anterior == GlobalEnOrden(puntajes, orden, k - 1)
         IN IF puntajes[orden[k]] > anterior.puntaje
            THEN [puntaje |-> puntajes[orden[k]], posicion |-> particulas[orden[k]]]
            ELSE anterior

(* C17: the global best position and score the update-bests step        *)
(* selects are the same for every order in which the particles are      *)
(* processed, also when several particles tie for the new maximum.      *)
C17_ReduccionSinOrden ==
    (pc = "mejores" /\ ~EntradaDegenerada) =>
        \A orden \in Ordenes :
            GlobalEnOrden(PuntajesActuales, orden, n_particulas)
                = GlobalTras(PuntajesActuales, n_particulas)

(* C18: after initialization and after every completed update-bests     *)
(* step the global best score is the maximum of the personal best       *)
(* scores, and the global best position is the personal best position   *)
(* of a particle whose personal best score is the global best score.    *)
C18_GlobalEsUnMejorLocal ==
    (pc \in {"init", "mover"} /\ ~EntradaDegenerada) =>
        /\ \A i \in Indices : mejores_puntajes_locales[i] <= mejor_puntaje_global
        /\ \E i \in Indices :
               /\ mejores_puntajes_locales[i] = mejor_puntaje_global
               /\ mejores_locales[i] = mejor_global

(* the stored global best is a position that was evaluated, with the    *)
(* score it was given, and no evaluation gave more; optimizar returns it *)
GlobalEsMaximoEvaluado ==
    Construido =>
        /\ <<mejor_global, mejor_puntaje_global>> \in evaluadas
        /\ mejor_puntaje_global = _evaluar_particula(mejor_global, datos)
        /\ \A e \in evaluadas : e[2] <= mejor_puntaje_global
        /\ pc = "done" =>
               resultado = <<FormatearSensores(mejor_global), mejor_puntaje_global>>

(* the move step leaves the stored global best as it was *)
MoverNoTocaGlobal ==
    pc = "mover" =>
        /\ mejor_global' = mejor_global
        /\ mejor_puntaje_global' = mejor_puntaje_global

(* C19: at every point of a run, and at return, the stored global best  *)
(* score is the score of the stored global best position, which the     *)
(* move step never alters, and it is the maximum of all scores          *)
(* evaluated so far; a position produced by the last move step is not   *)
(* evaluated and is not what optimizar returns.                         *)
C19_GlobalEsMaximoEvaluado ==
    [](GlobalEsMaximoEvaluado) /\ [][MoverNoTocaGlobal]_vars

(* optimizar returned after two or more iterations in which the global  *)
(* best improved, and the last move step left a particle at a position  *)
(* that was never evaluated and scores above what was returned          *)
C19_Testigo ==
    /\ pc = "done"
    /\ iteracion >= 2
    /\ historial_puntajes[iteracion] > historial_puntajes[1]
    /\ \E i \in Indices :
           /\ \A e \in evaluadas : e[1] # particulas[i]
           /\ _evaluar_particula(particulas[i], datos) > resultado[2]

(* ------------- claims about the functions of the objective ----------- *)

CultivosPresentes == {c \in 1..Len(Cultivos) : ConteoTotal(datos, Cultivos[c]) > 0}

TodosLosCultivos == CultivosPresentes = 1..Len(Cultivos)

(* the balance average taken over the crops that have points *)
BalanceSinAusentes ==
    LET puntaje == [c \in 1..Len(Cultivos) |->
                       IF c \in CultivosPresentes
                       THEN PuntajeCultivo(ubicaciones_sensores, datos, Cultivos[c])
                       ELSE 0]
    IN Suma(puntaje, Len(Cultivos)) \div Cardinality(CultivosPresentes)

(* C11: on a dataset with no point of one of the three crops, the        *)
(* balance sub-score either leaves that crop out of its average or       *)
(* raises InvalidInput; it raises nothing else.                          *)
C11_CultivoAusenteTratado ==
    (/\ llamada = "balance_entre_cultivos"
     /\ Len(datos) > 0
     /\ Len(ubicaciones_sensores) >= 1
     /\ ~TodosLosCultivos) =>
        \/ retorno.excepcion = "InvalidInput"
        \/ /\ retorno.excepcion = "none"
           /\ retorno.valor = BalanceSinAusentes

(* a call on a dataset with points of every crop and at least one sensor *)
LlamadaValida ==
    /\ llamada # "ninguna"
    /\ Len(datos) > 0
    /\ TodosLosCultivos
    /\ Len(ubicaciones_sensores) >= 1

(* C12: on a non-empty dataset with all three crops and at least one     *)
(* sensor, each of the four sub-scores is in [0, 1] and the total with   *)
(* the weights 0.35/0.25/0.25/0.15 is in [0, 1].                         *)
C12_PuntajesEnRango ==
    LlamadaValida =>
        /\ retorno.excepcion = "none"
        /\ 0 <= retorno.valor
        /\ retorno.valor <= IF llamada = "funcion_objetivo"
                            THEN (PesoCobertura + PesoBalance + PesoCriticas
                                  + PesoDistribucion) * Escala
                            ELSE Escala
        /\ PesoCobertura + PesoBalance + PesoCriticas + PesoDistribucion = 100

(* the total of two sensors far from every point and far from each       *)
(* other: coverage and distribution are floored at 0, and the total is   *)
(* strictly inside the range                                             *)
C12_Testigo ==
    /\ LlamadaValida
    /\ llamada = "funcion_objetivo"
    /\ Len(ubicaciones_sensores) = 2
    /\ calcular_cobertura_variabilidad(ubicaciones_sensores, datos) = 0
    /\ optimizar_distancias(ubicaciones_sensores) = 0
    /\ \E p \in 1..Len(datos) :
           DistanciaCent(Coords(datos[p]), ubicaciones_sensores[1])
               > 300 * RadioCobertura
    /\ 0 < retorno.valor
    /\ retorno.valor < 100 * Escala

(* distance from sample point p to the nearest sensor, in hundredths *)
DistanciaMinimaCent(p) ==
    LET ds == {DistanciaCent(Coords(datos[p]), ubicaciones_sensores[k]) :
                   k \in 1..Len(ubicaciones_sensores)}
    IN CHOOSE d \in ds : \A e \in ds : d <= e

(* credit 1 up to the coverage radius, falling in a straight line to 0   *)
(* at distance cero, in hundredths over 100 * (cero - RadioCobertura)    *)
CreditoLineal(d, cero) ==
    IF d <= 100 * RadioCobertura THEN 100 * (cero - RadioCobertura)
    ELSE IF d >= 100 * cero THEN 0
    ELSE 100 * cero - d

(* the mean over the sample points of that credit *)
CoberturaMedia(cero) ==
    LET credito == [p \in 1..Len(datos) |->
                       CreditoLineal(DistanciaMinimaCent(p), cero)]
    IN Frac(Suma(credito, Len(datos)),
            100 * (cero - RadioCobertura) * Len(datos))

LlamadaCobertura ==
    /\ llamada = "calcular_cobertura_variabilidad"
    /\ Len(datos) > 0
    /\ Len(ubicaciones_sensores) >= 1

(* C13 as stated: a point within RadioCobertura of a sensor has credit   *)
(* 1, beyond it the credit falls linearly to 0 at 2 * RadioCobertura     *)
(* and is 0 from there on; the sub-score is the mean credit.             *)
C13_CreditoCeroEnDosRadios ==
    LlamadaCobertura => retorno.valor = CoberturaMedia(2 * RadioCobertura)

(* C13 amended: a point within RadioCobertura of a sensor has credit 1,  *)
(* beyond it the credit falls linearly to 0 at 3 * RadioCobertura (it is *)
(* 1/2 at 2 * RadioCobertura) and is 0 from there on; the sub-score is   *)
(* the mean credit.                                                      *)
C13_CreditoCeroEnTresRadios ==
    LlamadaCobertura =>
        /\ retorno.excepcion = "none"
        /\ retorno.valor = CoberturaMedia(3 * RadioCobertura)

(* three points at exactly one, two and three radii from the sensor:     *)
(* credits 1, 1/2 and 0, mean 1/2                                        *)
C13_Testigo ==
    /\ LlamadaCobertura
    /\ Len(datos) = 3
    /\ \E p, q, r \in 1..Len(datos) :
           /\ DistanciaMinimaCent(p) = 100 * RadioCobertura
           /\ DistanciaMinimaCent(q) = 200 * RadioCobertura
           /\ DistanciaMinimaCent(r) = 300 * RadioCobertura
    /\ 2 * retorno.valor = Escala

(* sample points with salinity above 2.5, humidity below 15 or above 40 *)
PuntosCriticos ==
    {p \in 1..Len(datos) :
        \/ datos[p].Salinidad > SalinidadCritica
        \/ datos[p].Humedad < HumedadSeca
        \/ datos[p].Humedad > HumedadHumeda}

(* critical points within the critical radius of at least one sensor *)
CriticosCubiertos ==
    {p \in PuntosCriticos :
        \E k \in 1..Len(ubicaciones_sensores) :
            Distancia2(Coords(datos[p]), ubicaciones_sensores[k])
                <= RadioCritico * RadioCritico}

(* C14: the critical-zone sub-score is 1 when the dataset has no point   *)
(* with salinity > 2.5, humidity < 15 or humidity > 40 (a point exactly  *)
(* at 2.5, 15 or 40 is not critical); otherwise it is the fraction of    *)
(* the critical points that lie within the critical radius of a sensor.  *)
C14_ZonasCriticas ==
    llamada = "cubrir_zonas_problematicas" =>
        /\ retorno.excepcion = "none"
        /\ PuntosCriticos = {} => retorno.valor = Escala
        /\ PuntosCriticos # {} =>
               retorno.valor * Cardinality(PuntosCriticos)
                   = Escala * Cardinality(CriticosCubiertos)

(* a dataset with points exactly at salinity 2.5, humidity 15 and        *)
(* humidity 40 and no critical point, a sensor within the critical       *)
(* radius of none of them: the sub-score is 1                            *)
C14_Testigo ==
    /\ llamada = "cubrir_zonas_problematicas"
    /\ Len(ubicaciones_sensores) >= 1
    /\ \E p \in 1..Len(datos) : datos[p].Salinidad = SalinidadCritica
    /\ \E p \in 1..Len(datos) : datos[p].Humedad = HumedadSeca
    /\ \E p \in 1..Len(datos) : datos[p].Humedad = HumedadHumeda
    /\ PuntosCriticos = {}
    /\ \A p \in 1..Len(datos) : \A k \in 1..Len(ubicaciones_sensores) :
           Distancia2(Coords(datos[p]), ubicaciones_sensores[k])
               > RadioCritico * RadioCritico
    /\ retorno.valor = Escala

(* pairs of sensors of the call *)
ParesDeSensores ==
    {par \in (1..Len(ubicaciones_sensores)) \X (1..Len(ubicaciones_sensores)) :
        par[1] < par[2]}

(* the distance of the pair is between 70% and 130% of DistanciaIdeal,   *)
(* both included (compared as squares, times 100)                        *)
EnBanda(par) ==
    LET d2 == Distancia2(ubicaciones_sensores[par[1]], ubicaciones_sensores[par[2]])
    IN /\ 49 * DistanciaIdeal * DistanciaIdeal <= 100 * d2
       /\ 100 * d2 <= 169 * DistanciaIdeal * DistanciaIdeal

(* C15: the distribution sub-score is 1 for a single sensor, and for two *)
(* or more sensors it is 1 when every pairwise distance is within 70% to *)
(* 130% of DistanciaIdeal, in particular when every one equals it.       *)
C15_DistribucionPlena ==
    llamada = "optimizar_distancias" =>
        /\ retorno.excepcion = "none"
        /\ Len(ubicaciones_sensores) = 1 => retorno.valor = Escala
        /\ (/\ Len(ubicaciones_sensores) >= 2
            /\ \A par \in ParesDeSensores : EnBanda(par)) =>
               retorno.valor = Escala

(* sensors at exactly the ideal distance from each other *)
C15_Testigo ==
    /\ llamada = "optimizar_distancias"
    /\ Len(ubicaciones_sensores) >= 2
    /\ \A par \in ParesDeSensores :
           Distancia2(ubicaciones_sensores[par[1]], ubicaciones_sensores[par[2]])
               = DistanciaIdeal * DistanciaIdeal
    /\ retorno.valor = Escala

LlamadaBalance ==
    /\ llamada = "balance_entre_cultivos"
    /\ Len(datos) > 0
    /\ TodosLosCultivos
    /\ Len(ubicaciones_sensores) >= 1

(* every sample point is within the influence radius of some sensor *)
TodoCubierto ==
    \A p \in 1..Len(datos) :
        \E k \in 1..Len(ubicaciones_sensores) :
            Distancia2(Coords(datos[p]), ubicaciones_sensores[k])
                <= RadioInfluencia * RadioInfluencia

(* the covered fraction of every crop equals its share of the dataset *)
CoberturaIgualAProporcion ==
    \A c \in 1..Len(Cultivos) :
        ConteoCubierto(ubicaciones_sensores, datos, Cultivos[c]) * Len(datos)
            = ConteoTotal(datos, Cultivos[c]) * ConteoTotal(datos, Cultivos[c])

(* C20: on a dataset with all three crops, when every sample point is    *)
(* within the influence radius of a sensor the balance sub-score is      *)
(* exactly 1/3; the sub-score is 1 only when the covered fraction of     *)
(* each crop equals the share of that crop in the dataset.               *)
C20_BalanceConCoberturaTotal ==
    LlamadaBalance =>
        /\ retorno.excepcion = "none"
        /\ TodoCubierto => 3 * retorno.valor = Escala
        /\ retorno.valor = Escala => CoberturaIgualAProporcion /\ ~TodoCubierto

(* a call with every point covered that returned 1/3 *)
C20_Testigo ==
    /\ LlamadaBalance
    /\ TodoCubierto
    /\ 3 * retorno.valor = Escala

(* a call that returned 1: a third of every crop covered, every crop a   *)
(* third of the dataset                                                  *)
BalancePleno ==
    /\ LlamadaBalance
    /\ retorno.valor = Escala
    /\ CoberturaIgualAProporcion

====
